---- MODULE Spec2Model ----
(***************************************************************************)
(* Model of scripts/update-funds.py: the monthly job that fetches index    *)
(* fund records from the Morningstar client, falls back to the curated     *)
(* table, sorts both market lists by fee and writes funds.json.            *)
(*                                                                         *)
(* Text is modelled as sequences of one-character strings wherever the     *)
(* program formats, parses or searches it (fees, returns, name filters).   *)
(* Python values that may be None, a number or some other object are       *)
(* records [t, v]: t is "None", "num" or "str" (a non-empty, non-numeric   *)
(* string such as "abc"), v the number.  Numbers are fixed point:          *)
(*   ongoing_charge  in 1024ths (128 is the float 0.125): every such value *)
(*                   is a float exactly, so rounding it is exact,          *)
(*   performance     in tenths      (184 is 18.4),                         *)
(*   risk_rating     an integer,                                           *)
(*   a parsed fee (the sort key) in hundredths (12 is 0.12).               *)
(***************************************************************************)
EXTENDS Integers, Sequences, FiniteSets

VARIABLES
    MSTARPY_AVAILABLE, \* module flag set by the import at lines 14-19
    pc,                \* position of main() / fetch_morningstar_funds()
    country,           \* argument of the running fetch_morningstar_funds call
    termIdx,           \* index of `term` in `terms` (loop at line 50)
    funds,             \* local list `funds` of fetch_morningstar_funds
    global_funds,      \* main(): global_funds
    sweden_funds,      \* main(): sweden_funds
    output,            \* main(): the dict `output`, <<>> before it is built
    file,              \* contents of funds.json, <<>> while there is none
    writes,            \* number of times the with block of lines 473-474 was
                       \* left normally: funds.json written in full and closed
    queried,           \* history: a Funds.search or Funds(...) call was issued
    caught,            \* history: an "Error ..." line was printed (lines 86, 90)
    fetched,           \* history: what the two fetch calls returned to main()
    tracing,           \* whether the per-call history below is recorded
    candidates,        \* history: the fund_data records built in this call, in
                       \* order, each with the index of its search term
    failedAt,          \* history: Len(funds) at the latest caught exception, -1 if none
    raw                \* the provider record being normalised (SpecNormalize)

vars == <<MSTARPY_AVAILABLE, pc, country, termIdx, funds, global_funds,
          sweden_funds, output, file, writes, queried, caught, fetched,
          tracing, candidates, failedAt, raw>>

---------------------------------------------------------------------------
(* Python values *)

PyNone == [t |-> "None", v |-> 0]
PyStr == [t |-> "str", v |-> 0]
PyNum(n) == [t |-> "num", v |-> n]

\* bool(x): None and zero are falsy, a non-empty string is truthy
Truthy(x) == (x.t = "num" /\ x.v # 0) \/ x.t = "str"

---------------------------------------------------------------------------
(* Text helpers *)

NA == <<"N", "/", "A">>

DigitChars == <<"0", "1", "2", "3", "4", "5", "6", "7", "8", "9">>

IsDigit(c) == \E i \in 1..10 : DigitChars[i] = c

DigitVal(c) == (CHOOSE i \in 1..10 : DigitChars[i] = c) - 1

RECURSIVE Digits(_)
Digits(n) ==
    IF n < 10 THEN <<DigitChars[n + 1]>>
    ELSE Digits(n \div 10) \o <<DigitChars[(n % 10) + 1]>>

Abs(n) == IF n < 0 THEN -n ELSE n

\* n / d (n >= 0, d > 0) rounded to the nearest integer, a tie to the even
\* one: what the "f" presentation type does to the digits it drops
RoundHalfEvenDiv(n, d) ==
    LET q == n \div d
        r == n % d
    IN  IF 2 * r < d THEN q
        ELSE IF 2 * r > d THEN q + 1
        ELSE IF q % 2 = 0 THEN q ELSE q + 1

\* f"{x:.2f}" for the float x = b / 1024
Format2f(b) ==
    LET h == RoundHalfEvenDiv(100 * Abs(b), 1024)
        sign == IF b < 0 THEN <<"-">> ELSE <<>>
    IN  sign \o Digits(h \div 100) \o <<".">>
             \o <<DigitChars[((h \div 10) % 10) + 1], DigitChars[(h % 10) + 1]>>

\* f"{x:.0f}" for x given in tenths (a tie, x.5, is a float exactly)
Format0f(tenths) ==
    LET w == RoundHalfEvenDiv(Abs(tenths), 10)
        sign == IF tenths < 0 THEN <<"-">> ELSE <<>>
    IN  sign \o Digits(w)

\* s.startswith(p)
StartsWith(s, p) == Len(s) >= Len(p) /\ SubSeq(s, 1, Len(p)) = p

\* sub in s
Contains(s, sub) ==
    \E i \in 1..(Len(s) - Len(sub) + 1) : SubSeq(s, i, i + Len(sub) - 1) = sub

\* s.replace(old, new), old non-empty: leftmost non-overlapping occurrences
RECURSIVE Replace(_, _, _)
Replace(s, old, new) ==
    IF Len(s) = 0 THEN <<>>
    ELSE IF StartsWith(s, old)
         THEN new \o Replace(SubSeq(s, Len(old) + 1, Len(s)), old, new)
         ELSE <<s[1]>> \o Replace(Tail(s), old, new)

RECURSIVE DigitsValue(_)
DigitsValue(ds) ==
    IF Len(ds) = 0 THEN 0
    ELSE 10 * DigitsValue(SubSeq(ds, 1, Len(ds) - 1)) + DigitVal(ds[Len(ds)])

AllDigits(ds) == \A i \in 1..Len(ds) : IsDigit(ds[i])

Unsigned(s) == IF Len(s) > 0 /\ s[1] \in {"+", "-"} THEN Tail(s) ELSE s

DotAt(s) == IF \E i \in 1..Len(s) : s[i] = "."
            THEN CHOOSE i \in 1..Len(s) : s[i] = "." /\ \A j \in 1..(i - 1) : s[j] # "."
            ELSE Len(s) + 1

IntPart(s) == SubSeq(Unsigned(s), 1, DotAt(Unsigned(s)) - 1)

FracPart(s) == SubSeq(Unsigned(s), DotAt(Unsigned(s)) + 1, Len(Unsigned(s)))

\* float(s) accepts s: an optional sign, digits, optionally a point and digits
IsFloatText(s) ==
    /\ AllDigits(IntPart(s))
    /\ AllDigits(FracPart(s))
    /\ Len(IntPart(s)) + Len(FracPart(s)) > 0

\* float(s) in hundredths, for texts with at most two decimals
Float(s) ==
    LET fr == FracPart(s)
        f2 == IF Len(fr) = 0 THEN 0
              ELSE IF Len(fr) = 1 THEN 10 * DigitVal(fr[1])
              ELSE 10 * DigitVal(fr[1]) + DigitVal(fr[2])
        mag == 100 * DigitsValue(IntPart(s)) + f2
    IN  IF Len(s) > 0 /\ s[1] = "-" THEN -mag ELSE mag

---------------------------------------------------------------------------
(* Record normalisation: lines 57-79 and 99-137 *)

\* The characters of the fund names the provider stub serves (a TLA+ string
\* cannot be taken apart, so the names used are spelled out here).
Chars(name) ==
    CASE name = "Acme World Index Fund" ->
             <<"A", "c", "m", "e", " ", "W", "o", "r", "l", "d", " ", "I", "n", "d", "e", "x", " ", "F", "u", "n", "d">>
      [] name = "Gamma Passiv Inst" ->
             <<"G", "a", "m", "m", "a", " ", "P", "a", "s", "s", "i", "v", " ", "I", "n", "s", "t">>
      [] name = "Omega INDEX Class I" ->
             <<"O", "m", "e", "g", "a", " ", "I", "N", "D", "E", "X", " ", "C", "l", "a", "s", "s", " ", "I">>
      [] name = "Öhman Indexfond" ->
             <<"Ö", "h", "m", "a", "n", " ", "I", "n", "d", "e", "x", "f", "o", "n", "d">>
      [] name = "Delta Bond Fund" ->
             <<"D", "e", "l", "t", "a", " ", "B", "o", "n", "d", " ", "F", "u", "n", "d">>
      [] name = "Unknown" ->
             <<"U", "n", "k", "n", "o", "w", "n">>
      [] OTHER -> <<>>

\* the upper-case letters of ASCII and Latin-1 with their lower-case forms
UpperChars ==
    <<"A", "B", "C", "D", "E", "F", "G", "H", "I", "J", "K", "L", "M", "N", "O", "P", "Q", "R", "S", "T", "U", "V", "W", "X", "Y", "Z">>
    \o <<"À", "Á", "Â", "Ã", "Ä", "Å", "Æ", "Ç", "È", "É", "Ê", "Ë", "Ì", "Í", "Î", "Ï", "Ð", "Ñ", "Ò", "Ó", "Ô", "Õ", "Ö", "Ø", "Ù", "Ú", "Û", "Ü", "Ý", "Þ">>

LowerChars ==
    <<"a", "b", "c", "d", "e", "f", "g", "h", "i", "j", "k", "l", "m", "n", "o", "p", "q", "r", "s", "t", "u", "v", "w", "x", "y", "z">>
    \o <<"à", "á", "â", "ã", "ä", "å", "æ", "ç", "è", "é", "ê", "ë", "ì", "í", "î", "ï", "ð", "ñ", "ò", "ó", "ô", "õ", "ö", "ø", "ù", "ú", "û", "ü", "ý", "þ">>

LowerChar(c) ==
    IF \E i \in 1..Len(UpperChars) : UpperChars[i] = c
    THEN LowerChars[CHOOSE i \in 1..Len(UpperChars) : UpperChars[i] = c]
    ELSE c

\* str.lower()
Lower(s) == [i \in 1..Len(s) |-> LowerChar(s[i])]

institutional_keywords ==
    << <<"i", "n", "s", "t", "i", "t", "u", "t", "i", "o", "n", "a", "l">>,
       <<"i", "n", "s", "t">>,
       <<"i", "n", "s", "t", "i", "t", "u", "t", "i", "o", "n">>,
       <<"p", "r", "o", "f", "e", "s", "s", "i", "o", "n", "a", "l">>,
       <<"w", "h", "o", "l", "e", "s", "a", "l", "e">>,
       <<"c", "l", "a", "s", "s", " ", "i">>,
       <<"c", "l", "a", "s", "s", " ", "z">>,
       <<"c", "l", "a", "s", "s", " ", "p">>,
       <<"k", "l", "a", "s", "s", " ", "i">>,
       <<"k", "l", "a", "s", "s", " ", "z">>,
       <<"p", "e", "n", "s", "i", "o", "n">>,
       <<"t", "j", "ä", "n", "s", "t", "e", "p", "e", "n", "s", "i", "o", "n">> >>

is_institutional(name) ==
    LET name_lower == Lower(Chars(name))
    IN  \E k \in 1..Len(institutional_keywords) :
            Contains(name_lower, institutional_keywords[k])

\* line 63: the record is skipped unless 'index' or 'passiv' is in name.lower()
is_index_name(name) ==
    \/ Contains(Lower(Chars(name)), <<"i", "n", "d", "e", "x">>)
    \/ Contains(Lower(Chars(name)), <<"p", "a", "s", "s", "i", "v">>)

\* format_return with the sign test written val > 0: zero loses its '+'
format_return_positive_sign(value) ==
    IF value.t = "None" THEN NA
    ELSE IF value.t = "num"
         THEN (IF value.v > 0 THEN <<"+">> ELSE <<>>) \o Format0f(value.v) \o <<"%">>
         ELSE NA

format_return(value) ==
    IF value.t = "None" THEN NA
    ELSE IF value.t = "num"
         THEN (IF value.v >= 0 THEN <<"+">> ELSE <<>>) \o Format0f(value.v) \o <<"%">>
         ELSE NA

\* get_risk_level with the first boundary written rating < 2
get_risk_level_below_two(rating) ==
    IF rating.t = "None" THEN "Medel"
    ELSE IF rating.t = "num"
         THEN IF rating.v < 2 THEN "Låg"
              ELSE IF rating.v <= 4 THEN "Medel"
              ELSE "Hög"
         ELSE "Medel"

get_risk_level(rating) ==
    IF rating.t = "None" THEN "Medel"
    ELSE IF rating.t = "num"
         THEN IF rating.v <= 2 THEN "Låg"
              ELSE IF rating.v <= 4 THEN "Medel"
              ELSE "Hög"
         ELSE "Medel"

\* line 72: the format specification raises for a value that is not a number
fee_raises(ongoing_charge) == Truthy(ongoing_charge) /\ ongoing_charge.t # "num"

\* line 72: f"{fund.ongoing_charge:.2f}%" if fund.ongoing_charge else 'N/A'
fee_text(ongoing_charge) ==
    IF Truthy(ongoing_charge) THEN Format2f(ongoing_charge.v) \o <<"%">> ELSE NA

\* dict.get(key, default) on a search hit
get(result, key, default) ==
    IF key \in DOMAIN result THEN result[key] ELSE default

\* line 60: fund.name or result.get('Name', 'Unknown'); a fund without name
\* has name ""
display_name(r) == IF r.name # "" THEN r.name ELSE get(r.result, "Name", "Unknown")

\* lines 69-79
fund_data(r) ==
    [name |-> display_name(r),
     index |-> IF r.benchmark # "" THEN r.benchmark ELSE "N/A",
     fee |-> fee_text(r.ongoing_charge),
     return1y |-> format_return(r.perf1Y),
     return5y |-> format_return(r.perf5Y),
     risk |-> get_risk_level(r.risk_rating),
     isin |-> r.isin,
     institutional |-> is_institutional(display_name(r)),
     morningstarId |-> get(r.result, "SecId", "")]

\* lines 82-83 without the duplicate test
append_always(fs, fd) == Append(fs, fd)

\* lines 82-83: append unless a record of that name is already in the list
append_unique(fs, fd) ==
    IF \E i \in 1..Len(fs) : fs[i].name = fd.name THEN fs ELSE Append(fs, fd)

\* lines 56-87, one search hit r: the list `funds` after it
process_hit(fs, r) ==
    IF ~is_index_name(display_name(r)) THEN fs
    ELSE IF fee_raises(r.ongoing_charge) THEN fs
    ELSE append_unique(fs, fund_data(r))

\* a fund_data record was built for hit r (it passed the filter, nothing raised)
built(r) == is_index_name(display_name(r)) /\ ~fee_raises(r.ongoing_charge)

---------------------------------------------------------------------------
(* get_curated_funds: lines 159-432 *)

CuratedGlobal ==
  <<
    [name |-> "Avanza Global", index |-> "MSCI World",
     fee |-> <<"0",".","0","8","%">>, return1y |-> <<"+","2","2","%">>, return5y |-> <<"+","8","7","%">>,
     risk |-> "Medel", institutional |-> FALSE],
    [name |-> "Länsförsäkringar Global Index", index |-> "MSCI World",
     fee |-> <<"0",".","2","0","%">>, return1y |-> <<"+","2","1","%">>, return5y |-> <<"+","8","5","%">>,
     risk |-> "Medel", institutional |-> FALSE],
    [name |-> "Nordea Global Passiv", index |-> "MSCI World",
     fee |-> <<"0",".","1","9","%">>, return1y |-> <<"+","2","1","%">>, return5y |-> <<"+","8","4","%">>,
     risk |-> "Medel", institutional |-> FALSE],
    [name |-> "Nordnet Indexfond Global", index |-> "MSCI World ESG",
     fee |-> <<"0",".","2","0","%">>, return1y |-> <<"+","2","0","%">>, return5y |-> <<"+","8","2","%">>,
     risk |-> "Medel", institutional |-> FALSE],
    [name |-> "Swedbank Robur Access Global", index |-> "MSCI World",
     fee |-> <<"0",".","2","0","%">>, return1y |-> <<"+","2","0","%">>, return5y |-> <<"+","8","1","%">>,
     risk |-> "Medel", institutional |-> FALSE],
    [name |-> "SPP Aktiefond Global", index |-> "MSCI World",
     fee |-> <<"0",".","1","5","%">>, return1y |-> <<"+","2","1","%">>, return5y |-> <<"+","8","3","%">>,
     risk |-> "Medel", institutional |-> FALSE],
    [name |-> "Handelsbanken Global Index Criteria", index |-> "MSCI World SRI",
     fee |-> <<"0",".","2","0","%">>, return1y |-> <<"+","1","9","%">>, return5y |-> <<"+","7","8","%">>,
     risk |-> "Medel", institutional |-> FALSE],
    [name |-> "Storebrand Global Indeks", index |-> "MSCI World",
     fee |-> <<"0",".","2","0","%">>, return1y |-> <<"+","2","1","%">>, return5y |-> <<"+","8","4","%">>,
     risk |-> "Medel", institutional |-> FALSE],
    [name |-> "Blackrock World Index Fund Institutional", index |-> "MSCI World",
     fee |-> <<"0",".","0","5","%">>, return1y |-> <<"+","2","2","%">>, return5y |-> <<"+","8","8","%">>,
     risk |-> "Medel", institutional |-> TRUE],
    [name |-> "Vanguard Global Stock Index Inst", index |-> "MSCI World",
     fee |-> <<"0",".","0","6","%">>, return1y |-> <<"+","2","2","%">>, return5y |-> <<"+","8","7","%">>,
     risk |-> "Medel", institutional |-> TRUE],
    [name |-> "State Street World Index Equity Fund P", index |-> "MSCI World",
     fee |-> <<"0",".","0","8","%">>, return1y |-> <<"+","2","1","%">>, return5y |-> <<"+","8","6","%">>,
     risk |-> "Medel", institutional |-> TRUE],
    [name |-> "Nordea Global Passiv Institutional", index |-> "MSCI World",
     fee |-> <<"0",".","1","0","%">>, return1y |-> <<"+","2","1","%">>, return5y |-> <<"+","8","5","%">>,
     risk |-> "Medel", institutional |-> TRUE],
    [name |-> "AMF Aktiefond Global", index |-> "MSCI World",
     fee |-> <<"0",".","1","4","%">>, return1y |-> <<"+","2","1","%">>, return5y |-> <<"+","8","4","%">>,
     risk |-> "Medel", institutional |-> TRUE],
    [name |-> "Alecta Global Aktieindexfond", index |-> "MSCI World",
     fee |-> <<"0",".","0","2","%">>, return1y |-> <<"+","2","2","%">>, return5y |-> <<"+","8","8","%">>,
     risk |-> "Medel", institutional |-> TRUE]
  >>

CuratedSweden ==
  <<
    [name |-> "Avanza Zero", index |-> "OMX30",
     fee |-> <<"0",".","0","0","%">>, return1y |-> <<"+","1","4","%">>, return5y |-> <<"+","6","2","%">>,
     risk |-> "Hög", institutional |-> FALSE],
    [name |-> "Nordnet Indexfond Sverige", index |-> "Sverige (100+ bolag)",
     fee |-> <<"0",".","0","0","%">>, return1y |-> <<"+","1","2","%">>, return5y |-> <<"+","5","1","%">>,
     risk |-> "Hög", institutional |-> FALSE],
    [name |-> "SEB Sverige Indexnära", index |-> "SIX Return Index",
     fee |-> <<"0",".","2","4","%">>, return1y |-> <<"+","1","2","%">>, return5y |-> <<"+","5","1","%">>,
     risk |-> "Hög", institutional |-> FALSE],
    [name |-> "Länsförsäkringar Sverige Index", index |-> "OMXSB",
     fee |-> <<"0",".","2","0","%">>, return1y |-> <<"+","1","1","%">>, return5y |-> <<"+","5","0","%">>,
     risk |-> "Hög", institutional |-> FALSE],
    [name |-> "PLUS Allabolag Sverige Index", index |-> "Sverige (300 bolag)",
     fee |-> <<"0",".","3","0","%">>, return1y |-> <<"+","1","1","%">>, return5y |-> <<"+","4","8","%">>,
     risk |-> "Hög", institutional |-> FALSE],
    [name |-> "Handelsbanken Sverige Index Criteria", index |-> "SIX SRI Sweden",
     fee |-> <<"0",".","2","0","%">>, return1y |-> <<"+","1","2","%">>, return5y |-> <<"+","5","2","%">>,
     risk |-> "Hög", institutional |-> FALSE],
    [name |-> "Swedbank Robur Sverigefond", index |-> "SIX Return Index",
     fee |-> <<"0",".","2","0","%">>, return1y |-> <<"+","1","1","%">>, return5y |-> <<"+","4","9","%">>,
     risk |-> "Hög", institutional |-> FALSE],
    [name |-> "SPP Aktiefond Sverige", index |-> "SIX Portfolio Return",
     fee |-> <<"0",".","1","5","%">>, return1y |-> <<"+","1","2","%">>, return5y |-> <<"+","5","0","%">>,
     risk |-> "Hög", institutional |-> FALSE],
    [name |-> "AMF Aktiefond Sverige", index |-> "SIX Return Index",
     fee |-> <<"0",".","1","0","%">>, return1y |-> <<"+","1","3","%">>, return5y |-> <<"+","5","4","%">>,
     risk |-> "Hög", institutional |-> TRUE],
    [name |-> "Alecta Sverige Aktieindexfond", index |-> "SIX Return Index",
     fee |-> <<"0",".","0","2","%">>, return1y |-> <<"+","1","4","%">>, return5y |-> <<"+","5","5","%">>,
     risk |-> "Hög", institutional |-> TRUE],
    [name |-> "Nordea Sverige Passiv Institutional", index |-> "OMXSB GI",
     fee |-> <<"0",".","0","8","%">>, return1y |-> <<"+","1","2","%">>, return5y |-> <<"+","5","2","%">>,
     risk |-> "Hög", institutional |-> TRUE],
    [name |-> "SEB Sverige Indexfond Inst", index |-> "SIX Return Index",
     fee |-> <<"0",".","1","0","%">>, return1y |-> <<"+","1","2","%">>, return5y |-> <<"+","5","2","%">>,
     risk |-> "Hög", institutional |-> TRUE],
    [name |-> "Handelsbanken Sverige Index Inst", index |-> "SIX SRI Sweden",
     fee |-> <<"0",".","0","8","%">>, return1y |-> <<"+","1","3","%">>, return5y |-> <<"+","5","3","%">>,
     risk |-> "Hög", institutional |-> TRUE],
    [name |-> "Swedbank Robur Sverigefond Inst", index |-> "SIX Return Index",
     fee |-> <<"0",".","0","6","%">>, return1y |-> <<"+","1","2","%">>, return5y |-> <<"+","5","1","%">>,
     risk |-> "Hög", institutional |-> TRUE]
  >>

get_curated_funds == [global |-> CuratedGlobal, sweden |-> CuratedSweden]

---------------------------------------------------------------------------
(* The fee sort of main(): lines 451-453 *)

\* the sort key with the sentinel read as 0 instead of 999
fee_key_text_zero(x) == Replace(Replace(x.fee, <<"%">>, <<>>), NA, <<"0">>)

\* the sort key: float(x['fee'].replace('%', '').replace('N/A', '999'))
fee_key_text(x) == Replace(Replace(x.fee, <<"%">>, <<>>), NA, <<"9", "9", "9">>)

fee_key(x) == Float(fee_key_text(x))

\* an unstable insertion: the element goes in front of the elements of equal key
sort_insert_front(s, x) ==
    SelectSeq(s, LAMBDA e : fee_key(e) < fee_key(x))
        \o <<x>> \o SelectSeq(s, LAMBDA e : fee_key(e) >= fee_key(x))

\* list.sort is stable: an element goes behind every element whose key is
\* not greater than its own
sort_insert(s, x) ==
    SelectSeq(s, LAMBDA e : fee_key(e) <= fee_key(x))
        \o <<x>> \o SelectSeq(s, LAMBDA e : fee_key(e) > fee_key(x))

RECURSIVE sort_by_fee(_)
sort_by_fee(l) ==
    IF Len(l) = 0 THEN <<>>
    ELSE sort_insert(sort_by_fee(SubSeq(l, 1, Len(l) - 1)), l[Len(l)])

---------------------------------------------------------------------------
(* The provider: what Funds.search and Funds(...) may serve *)

\* search_terms, lines 43-46
search_terms ==
    [se |-> <<"Sverige Index", "Sweden Index", "OMX", "SIX">>,
     global |-> <<"Global Index", "World Index", "MSCI World", "MSCI ACWI", "S&P 500">>]

\* line 48: search_terms.get(country, search_terms['global'])
terms(c) == IF c = "se" THEN search_terms.se ELSE search_terms.global

\* one search hit (the dict `result`) with the detail record Funds(SecId)
\* exposes
Hit(result, fundName, charge, p1, p5, rating) ==
    [result |-> result, name |-> fundName,
     benchmark |-> "MSCI World", ongoing_charge |-> charge,
     perf1Y |-> p1, perf5Y |-> p5, risk_rating |-> rating, isin |-> ""]

NoRaw == Hit([SecId |-> ""], "", PyNone, PyNone, PyNone, PyNone)

\* the hits the provider serves during a run of main(); 123 / 1024 formats
\* as 0.12, 1024000 / 1024 is 1000.0, 1022972 / 1024 formats as 999.00, the
\* value the sort key gives the sentinel
ProviderRecords ==
    { Hit([SecId |-> "F1", Name |-> "Acme World Index Fund"], "Acme World Index Fund",
          PyNum(123), PyNum(184), PyNone, PyNum(3)),
      Hit([SecId |-> "F2", Name |-> "Acme World Index Fund"], "",
          PyNum(0), PyNum(-25), PyNum(5), PyNum(5)),
      Hit([SecId |-> "F3", Name |-> "Gamma"], "Gamma Passiv Inst",
          PyNum(1022972), PyNum(0), PyNum(700), PyNum(2)),
      Hit([SecId |-> "F4", Name |-> "Omega INDEX Class I"], "Omega INDEX Class I",
          PyNum(1024000), PyNone, PyNone, PyNone),
      Hit([SecId |-> "F5", Name |-> "Öhman Indexfond"], "Öhman Indexfond",
          PyNone, PyNum(15), PyStr, PyStr),
      Hit([SecId |-> "F6", Name |-> "Delta Bond Fund"], "Delta Bond Fund",
          PyNum(205), PyNum(10), PyNum(10), PyNum(4)),
      Hit([SecId |-> "F7"], "",
          PyNum(205), PyNum(10), PyNum(10), PyNum(4)) }

\* the calendar dates datetime.now() may fall on
Dates == {"2024-01-31", "2024-02-01"}

\* most records one fetch_morningstar_funds call accumulates (most fund_data
\* records it builds, where the per-call history is recorded)
MaxHits == 2

\* largest return, in tenths of a percent, and largest risk rating normalised
MaxReturn == 25

MaxRating == 7

\* ongoing charges normalised, in 1024ths: 128 and 384 (0.125, 0.375) are
\* ties, 5 and 15 lie next to 0.005 and 0.015, 1022972 rounds up to 999.00
ChargeInputs ==
    {PyNone, PyStr} \cup
    {PyNum(n) : n \in {-512, 0, 4, 5, 15, 123, 128, 384, 1022972, 1024000}}

ReturnInputs ==
    {PyNone, PyStr} \cup {PyNum(n) : n \in (-MaxReturn..MaxReturn) \cup {184, 700, -1234}}

Return5yInputs == {PyNone, PyNum(-5), PyNum(1005)}

RatingInputs == {PyNone, PyStr} \cup {PyNum(n) : n \in -1..MaxRating}

\* the provider records normalised one at a time
RawInputs ==
    { Hit([SecId |-> "F1", Name |-> "Acme World Index Fund"],
          "Acme World Index Fund", c, p1, p5, rt) :
        c \in ChargeInputs, p1 \in ReturnInputs, p5 \in Return5yInputs,
        rt \in RatingInputs }

---------------------------------------------------------------------------
(* main() and fetch_morningstar_funds() *)

\* the state main() starts in, line 441, but for the import flag and the
\* first call's argument
Start(c) ==
    /\ pc = "fetch_start"
    /\ country = c
    /\ termIdx = 1
    /\ funds = <<>>
    /\ global_funds = <<>>
    /\ sweden_funds = <<>>
    /\ fetched = [global |-> <<>>, se |-> <<>>]
    /\ output = <<>>
    /\ file = <<>>
    /\ writes = 0
    /\ queried = FALSE
    /\ caught = FALSE
    /\ candidates = <<>>
    /\ failedAt = -1
    /\ raw = NoRaw

Init ==
    /\ MSTARPY_AVAILABLE \in BOOLEAN
    /\ tracing = FALSE
    /\ Start("global")

\* lines 36-39 without the early return: the loop starts although the client
\* library is missing
FetchIgnoresFlag ==
    /\ pc = "fetch_start"
    /\ ~MSTARPY_AVAILABLE
    /\ funds' = <<>>
    /\ termIdx' = 1
    /\ pc' = "search"
    /\ UNCHANGED <<MSTARPY_AVAILABLE, country, global_funds, sweden_funds,
                   output, file, writes, queried, caught, fetched, tracing,
                   candidates, failedAt, raw>>

\* lines 36-39: the client library is missing
FetchUnavailable ==
    /\ pc = "fetch_start"
    /\ ~MSTARPY_AVAILABLE
    /\ funds' = <<>>
    /\ pc' = "fetch_return"
    /\ UNCHANGED <<MSTARPY_AVAILABLE, country, termIdx, global_funds,
                   sweden_funds, output, file, writes, queried, caught,
                   fetched, tracing, candidates, failedAt, raw>>

\* lines 36-50: the loop over the search terms starts
FetchStart ==
    /\ pc = "fetch_start"
    /\ MSTARPY_AVAILABLE
    /\ funds' = <<>>
    /\ termIdx' = 1
    /\ pc' = "search"
    /\ UNCHANGED <<MSTARPY_AVAILABLE, country, global_funds, sweden_funds,
                   output, file, writes, queried, caught, fetched, tracing,
                   candidates, failedAt, raw>>

\* line 53: Funds.search returns its hits
SearchReturns ==
    /\ pc = "search"
    /\ termIdx <= Len(terms(country))
    /\ queried' = TRUE
    /\ pc' = "results"
    /\ UNCHANGED <<MSTARPY_AVAILABLE, country, termIdx, funds, global_funds,
                   sweden_funds, output, file, writes, caught, fetched,
                   tracing, candidates, failedAt, raw>>

\* line 53 without the handlers of lines 89-94: the exception leaves main()
SearchRaisesEscapes ==
    /\ pc = "search"
    /\ termIdx <= Len(terms(country))
    /\ queried' = TRUE
    /\ pc' = "raised"
    /\ UNCHANGED <<MSTARPY_AVAILABLE, country, termIdx, funds, global_funds,
                   sweden_funds, output, file, writes, caught, fetched,
                   tracing, candidates, failedAt, raw>>

\* lines 53, 89-91: Funds.search raises, the error is printed, the term skipped
SearchRaises ==
    /\ pc = "search"
    /\ termIdx <= Len(terms(country))
    /\ queried' = TRUE
    /\ caught' = TRUE
    /\ failedAt' = IF tracing THEN Len(funds) ELSE failedAt
    /\ termIdx' = termIdx + 1
    /\ UNCHANGED <<MSTARPY_AVAILABLE, pc, country, funds, global_funds,
                   sweden_funds, output, file, writes, fetched, tracing,
                   candidates, raw>>

\* lines 55-83: one hit of the current search is processed
ProcessHit ==
    /\ pc = "results"
    /\ \E r \in ProviderRecords :
          /\ built(r) => IF tracing THEN Len(candidates) < MaxHits
                                    ELSE Len(funds) < MaxHits
          /\ funds' = process_hit(funds, r)
          /\ candidates' = IF tracing /\ built(r)
                           THEN Append(candidates, [term |-> termIdx, rec |-> fund_data(r)])
                           ELSE candidates
    /\ UNCHANGED <<MSTARPY_AVAILABLE, pc, country, termIdx, global_funds,
                   sweden_funds, output, file, writes, queried, caught,
                   fetched, tracing, failedAt, raw>>

\* line 57 without the handlers of lines 85-91: the exception reaches line 93
\* and the call returns what it has
HitRaisesAborts ==
    /\ pc = "results"
    /\ caught' = TRUE
    /\ failedAt' = IF tracing THEN Len(funds) ELSE failedAt
    /\ pc' = "fetch_return"
    /\ UNCHANGED <<MSTARPY_AVAILABLE, country, termIdx, funds, global_funds,
                   sweden_funds, output, file, writes, queried, fetched,
                   tracing, candidates, raw>>

\* lines 57, 85-87: the detail fetch of one hit raises, the error is printed,
\* the hit skipped
HitRaises ==
    /\ pc = "results"
    /\ caught' = TRUE
    /\ failedAt' = IF tracing THEN Len(funds) ELSE failedAt
    /\ UNCHANGED <<MSTARPY_AVAILABLE, pc, country, termIdx, funds,
                   global_funds, sweden_funds, output, file, writes, queried,
                   fetched, tracing, candidates, raw>>

\* line 55: the hits of this term are exhausted, on to the next term
ResultsExhausted ==
    /\ pc = "results"
    /\ termIdx' = termIdx + 1
    /\ pc' = "search"
    /\ UNCHANGED <<MSTARPY_AVAILABLE, country, funds, global_funds,
                   sweden_funds, output, file, writes, queried, caught,
                   fetched, tracing, candidates, failedAt, raw>>

\* line 50: no term is left
TermsExhausted ==
    /\ pc = "search"
    /\ termIdx > Len(terms(country))
    /\ pc' = "fetch_return"
    /\ UNCHANGED <<MSTARPY_AVAILABLE, country, termIdx, funds, global_funds,
                   sweden_funds, output, file, writes, queried, caught,
                   fetched, tracing, candidates, failedAt, raw>>

\* lines 39/96 and 441: fetch_morningstar_funds('global') returns to main(),
\* which calls fetch_morningstar_funds('se')
ReturnGlobal ==
    /\ pc = "fetch_return"
    /\ ~tracing
    /\ country = "global"
    /\ global_funds' = funds
    /\ fetched' = [fetched EXCEPT !.global = funds]
    /\ country' = "se"
    /\ funds' = <<>>
    /\ termIdx' = 1
    /\ pc' = "fetch_start"
    /\ UNCHANGED <<MSTARPY_AVAILABLE, sweden_funds, output, file, writes,
                   queried, caught, tracing, candidates, failedAt, raw>>

\* lines 39/96 and 442: fetch_morningstar_funds('se') returns to main()
ReturnSweden ==
    /\ pc = "fetch_return"
    /\ ~tracing
    /\ country = "se"
    /\ sweden_funds' = funds
    /\ fetched' = [fetched EXCEPT !.se = funds]
    /\ funds' = <<>>
    /\ termIdx' = 1
    /\ pc' = "fallback"
    /\ UNCHANGED <<MSTARPY_AVAILABLE, country, global_funds, output, file,
                   writes, queried, caught, tracing, candidates, failedAt,
                   raw>>

\* line 445 with `and` for `or`
use_curated_both_empty(g, s) == Len(g) = 0 /\ Len(s) = 0

\* line 445: not global_funds or not sweden_funds
use_curated(g, s) == Len(g) = 0 \/ Len(s) = 0

\* lines 445-449
Fallback ==
    /\ pc = "fallback"
    /\ global_funds' = IF use_curated(global_funds, sweden_funds)
                       THEN get_curated_funds.global ELSE global_funds
    /\ sweden_funds' = IF use_curated(global_funds, sweden_funds)
                       THEN get_curated_funds.sweden ELSE sweden_funds
    /\ pc' = "sort"
    /\ UNCHANGED <<MSTARPY_AVAILABLE, country, termIdx, funds, output, file,
                   writes, queried, caught, fetched, tracing, candidates,
                   failedAt, raw>>

\* lines 456-467
document(g, s, today) ==
    [global |-> g,
     sweden |-> s,
     lastUpdated |-> today,
     sources |-> <<"morningstar.se", "avanza.se", "nordnet.se", "fondmarknaden.se">>,
     disclaimer |-> "Inkluderar fonder för både privatpersoner och institutionella investerare. Historisk avkastning är ingen garanti för framtida resultat."]

\* lines 451-467: both lists are sorted in place and the document is built
SortAndBuild ==
    /\ pc = "sort"
    /\ global_funds' = sort_by_fee(global_funds)
    /\ sweden_funds' = sort_by_fee(sweden_funds)
    /\ \E today \in Dates :
          output' = <<document(global_funds', sweden_funds', today)>>
    /\ pc' = "write"
    /\ UNCHANGED <<MSTARPY_AVAILABLE, country, termIdx, funds, file, writes,
                   queried, caught, fetched, tracing, candidates, failedAt,
                   raw>>

\* lines 473-478: funds.json is written and closed, the with block is left
\* normally
WriteFile ==
    /\ pc = "write"
    /\ file' = output
    /\ writes' = writes + 1
    /\ pc' = "done"
    /\ UNCHANGED <<MSTARPY_AVAILABLE, country, termIdx, funds, global_funds,
                   sweden_funds, output, queried, caught, fetched, tracing,
                   candidates, failedAt, raw>>

\* what open(..., 'w') and a json.dump that fails part way leave in funds.json:
\* a prefix of the text, no document
Truncated == [truncated |-> TRUE]

\* lines 473-474: open() succeeds and truncates the file, then json.dump
\* raises, or it returns with the text still buffered and the close at the
\* end of the with block raises (disk full, size limit); either way the
\* with block is left by the exception, which leaves main()
WriteTruncates ==
    /\ pc = "write"
    /\ file' = <<Truncated>>
    /\ pc' = "raised"
    /\ UNCHANGED <<MSTARPY_AVAILABLE, country, termIdx, funds, global_funds,
                   sweden_funds, output, writes, queried, caught, fetched,
                   tracing, candidates, failedAt, raw>>

\* line 473: open() raises (the directory is missing or not writable); the
\* exception leaves main()
WriteRaises ==
    /\ pc = "write"
    /\ pc' = "raised"
    /\ UNCHANGED <<MSTARPY_AVAILABLE, country, termIdx, funds, global_funds,
                   sweden_funds, output, file, writes, queried, caught,
                   fetched, tracing, candidates, failedAt, raw>>

Next ==
    \/ FetchUnavailable
    \/ FetchStart
    \/ SearchReturns
    \/ SearchRaises
    \/ ProcessHit
    \/ HitRaises
    \/ ResultsExhausted
    \/ TermsExhausted
    \/ ReturnGlobal
    \/ ReturnSweden
    \/ Fallback
    \/ SortAndBuild
    \/ WriteFile
    \/ WriteTruncates
    \/ WriteRaises

\* a run of main()
Spec == Init /\ [][Next]_vars

---------------------------------------------------------------------------
(* One call of fetch_morningstar_funds, with its history recorded *)

InitFetch ==
    /\ MSTARPY_AVAILABLE \in BOOLEAN
    /\ tracing = TRUE
    /\ \E c \in {"global", "se"} : Start(c)

NextFetch ==
    \/ FetchUnavailable
    \/ FetchStart
    \/ SearchReturns
    \/ SearchRaises
    \/ ProcessHit
    \/ HitRaises
    \/ ResultsExhausted
    \/ TermsExhausted

SpecFetch == InitFetch /\ [][NextFetch]_vars

---------------------------------------------------------------------------
(* The normalisation of one search hit, lines 56-87, on its own *)

InitNormalize ==
    /\ MSTARPY_AVAILABLE = TRUE
    /\ tracing = TRUE
    /\ pc = "normalize"
    /\ raw \in RawInputs
    /\ country = "global"
    /\ termIdx = 1
    /\ funds = <<>>
    /\ global_funds = <<>>
    /\ sweden_funds = <<>>
    /\ fetched = [global |-> <<>>, se |-> <<>>]
    /\ output = <<>>
    /\ file = <<>>
    /\ writes = 0
    /\ queried = TRUE
    /\ caught = FALSE
    /\ candidates = <<>>
    /\ failedAt = -1

NormalizeHit ==
    /\ pc = "normalize"
    /\ funds' = process_hit(funds, raw)
    /\ caught' = fee_raises(raw.ongoing_charge)
    /\ pc' = "normalized"
    /\ UNCHANGED <<MSTARPY_AVAILABLE, country, termIdx, global_funds,
                   sweden_funds, output, file, writes, queried, fetched,
                   tracing, candidates, failedAt, raw>>

SpecNormalize == InitNormalize /\ [][NormalizeHit]_vars

---------------------------------------------------------------------------
(* Properties *)

RecordsOf(l) == {l[i] : i \in 1..Len(l)}

\* a and b hold the same records, each once (the records of b are distinct)
SameRecords(a, b) == Len(a) = Len(b) /\ RecordsOf(a) = RecordsOf(b)

\* one of the two live fetches returned no record
LiveEmpty == Len(fetched.global) = 0 \/ Len(fetched.se) = 0

\* the document has been built (lines 456-467 have run)
Built == Len(output) = 1

\* numeric-fee of a record, in hundredths: the percentage read as a number,
\* the sentinel counted as 999
NumericFee(x) ==
    IF x.fee = NA THEN 99900 ELSE Float(SubSeq(x.fee, 1, Len(x.fee) - 1))

SortedByFee(l) ==
    \A i \in 1..(Len(l) - 1) : NumericFee(l[i]) <= NumericFee(l[i + 1])

MissingTrail(l) ==
    \A i, j \in 1..Len(l) : (l[i].fee = NA /\ l[j].fee # NA) => j < i

\* no fee of the list reads 'nan%' (a charge that is a float but not a number
\* formats so, and its key compares false with every key)
NoNanFee(l) == \A i \in 1..Len(l) : l[i].fee # <<"n", "a", "n", "%">>

\* every record with the sentinel fee stands behind every record with a known
\* fee below 999.00% and in front of every record with a known fee above it
MissingPlacedAs999(l) ==
    \A i, j \in 1..Len(l) :
        (l[i].fee = NA /\ l[j].fee # NA) =>
            /\ NumericFee(l[j]) < 99900 => j < i
            /\ NumericFee(l[j]) > 99900 => i < j

\* a record with the sentinel fee and a record with a fee of exactly 999.00%
\* stand in out in the order they have in pre
MissingTieKeepsOrder(out, pre) ==
    \A i, j \in 1..Len(pre) :
        (/\ i < j
         /\ (pre[i].fee = NA) # (pre[j].fee = NA)
         /\ NumericFee(pre[i]) = 99900
         /\ NumericFee(pre[j]) = 99900)
            => \E m, n \in 1..Len(out) :
                  m < n /\ out[m] = pre[i] /\ out[n] = pre[j]

IndexOf(l, r) == CHOOSE i \in 1..Len(l) : l[i] = r

\* out is pre rearranged without changing the order of records of equal fee
StableRearrangement(out, pre) ==
    /\ SameRecords(out, pre)
    /\ \A i, j \in 1..Len(pre) :
          (i < j /\ NumericFee(pre[i]) = NumericFee(pre[j]))
              => IndexOf(out, pre[i]) < IndexOf(out, pre[j])

\* C1 as stated: if the live fetch returned no record for either market, both
\* lists of the document equal the curated lists exactly, order included.
C1_FallbackEqualsCuratedExactly ==
    (Built /\ LiveEmpty) =>
        /\ output[1].global = CuratedGlobal
        /\ output[1].sweden = CuratedSweden

\* C1 amended: if the live fetch returned no record for either market, both
\* lists of the document hold exactly the curated records, each once and
\* unchanged (in fee order, not in table order), no record of a live fetch
\* is in the document, and the written file is that document.
C1_FallbackHoldsCuratedRecords ==
    (Built /\ LiveEmpty) =>
        /\ SameRecords(output[1].global, CuratedGlobal)
        /\ SameRecords(output[1].sweden, CuratedSweden)
        /\ \A r \in RecordsOf(fetched.global) \cup RecordsOf(fetched.se) :
              r \notin RecordsOf(output[1].global) \cup RecordsOf(output[1].sweden)
        /\ pc = "done" => file = output

C1_Witness ==
    pc = "done" /\ Len(fetched.global) > 0 /\ Len(fetched.se) = 0

DocumentKeys == {"global", "sweden", "lastUpdated", "sources", "disclaimer"}

\* some step other than the sort is possible
CanStep ==
    \/ ENABLED FetchUnavailable
    \/ ENABLED FetchStart
    \/ ENABLED SearchReturns
    \/ ENABLED TermsExhausted
    \/ ENABLED ResultsExhausted
    \/ ENABLED ReturnGlobal
    \/ ENABLED ReturnSweden
    \/ ENABLED Fallback
    \/ ENABLED WriteFile
    \/ ENABLED WriteRaises

\* C2: whatever the provider does, main() gets to the write step: no state
\* before the end is stuck, the sort finds every fee parseable, main() ends
\* either having written exactly one document with the five keys and both
\* market lists, or raising at the write, after the document was built and
\* with no document in the file (none at all, or a truncated text).
C2_AlwaysReachesWrite ==
    /\ writes <= 1
    /\ pc \notin {"done", "raised", "sort"} => CanStep
    /\ pc = "sort" =>
          \A r \in RecordsOf(global_funds) \cup RecordsOf(sweden_funds) :
              IsFloatText(fee_key_text(r))
    /\ pc = "done" =>
          /\ writes = 1
          /\ Len(file) = 1
          /\ DOMAIN file[1] = DocumentKeys
          /\ file[1].global = global_funds
          /\ file[1].sweden = sweden_funds
    /\ pc = "raised" =>
          /\ Built
          /\ writes = 0
          /\ file # output
          /\ \A i \in 1..Len(file) : DOMAIN file[i] # DocumentKeys

C2_Witness ==
    pc = "done" /\ caught /\ writes = 1 /\ Len(file) = 1

\* the record of the earliest candidate carrying the name of candidate k
FirstOfName(c, k) == \A j \in 1..(k - 1) : c[j].rec.name # c[k].rec.name

\* the records of the candidates that are the first of their name, in order
RECURSIVE FirstOccurrences(_)
FirstOccurrences(c) ==
    IF Len(c) = 0 THEN <<>>
    ELSE LET init == FirstOccurrences(SubSeq(c, 1, Len(c) - 1))
         IN  IF FirstOfName(c, Len(c)) THEN Append(init, c[Len(c)].rec) ELSE init

\* C3: within one call a failing search or a failing hit is skipped and
\* nothing else: the list holds exactly the records built by the calls that
\* did not fail, in phrase-then-hit order (less the duplicates), the records
\* held at a failure are still held, and the call returns only after the
\* loop has gone through every search term.
C3_FailureSkipsOnlyItself ==
    /\ funds = FirstOccurrences(candidates)
    /\ \A i, j \in 1..Len(candidates) :
          i < j => candidates[i].term <= candidates[j].term
    /\ failedAt <= Len(funds)
    /\ (pc = "fetch_return" /\ MSTARPY_AVAILABLE) =>
          termIdx = Len(terms(country)) + 1

C3_Witness ==
    pc = "fetch_return" /\ caught /\ failedAt = 1 /\ Len(funds) = 2

\* C4 as stated: in each list of the document the numeric fees never
\* decrease, and every record with the sentinel fee comes behind every
\* record with a known fee.
C4_SortedMissingAlwaysLast ==
    Built =>
        \A l \in {output[1].global, output[1].sweden} :
            SortedByFee(l) /\ MissingTrail(l)

\* C4 amended: in each list of the document that holds no fee of 'nan%' the
\* numeric fees (sentinel counted as 999) never decrease; so every record
\* with the sentinel fee comes behind every record with a known fee below
\* 999.00% and in front of every record with a known fee above 999.00%; and
\* the sort leaves a record with the sentinel fee and a record with a fee of
\* exactly 999.00% in the order in which they were fetched.
C4_SortedMissingPlacedAs999 ==
    /\ [](Built =>
            \A l \in {output[1].global, output[1].sweden} :
                NoNanFee(l) => SortedByFee(l) /\ MissingPlacedAs999(l))
    /\ [][pc = "sort" =>
            /\ MissingTieKeepsOrder(global_funds', global_funds)
            /\ MissingTieKeepsOrder(sweden_funds', sweden_funds)
            /\ output'[1].global = global_funds'
            /\ output'[1].sweden = sweden_funds']_vars

\* the written global list holds a fee of 999.00% in front of the sentinel,
\* the written Swedish list the sentinel in front of a fee of 999.00%, each as
\* fetched
C4_Witness ==
    /\ pc = "done"
    /\ ~LiveEmpty
    /\ file[1].global = fetched.global
    /\ file[1].sweden = fetched.se
    /\ Len(file[1].global) = 2
    /\ file[1].global[1].fee = <<"9", "9", "9", ".", "0", "0", "%">>
    /\ file[1].global[2].fee = NA
    /\ Len(file[1].sweden) = 2
    /\ file[1].sweden[1].fee = NA
    /\ file[1].sweden[2].fee = <<"9", "9", "9", ".", "0", "0", "%">>

\* C5: the list of a call never holds two records of one name, and of the
\* records built under one name it holds the first, also when the later one
\* came from another search term.
C5_NamesUniqueFirstKept ==
    /\ \A i, j \in 1..Len(funds) : funds[i].name = funds[j].name => i = j
    /\ \A k \in 1..Len(candidates) :
          \E i \in 1..Len(funds) :
              /\ funds[i].name = candidates[k].rec.name
              /\ \E m \in 1..k :
                    /\ FirstOfName(candidates, m)
                    /\ candidates[m].rec = funds[i]

C5_Witness ==
    /\ Len(candidates) = 2
    /\ candidates[1].rec.name = candidates[2].rec.name
    /\ candidates[1].rec # candidates[2].rec
    /\ candidates[1].term < candidates[2].term
    /\ funds = <<candidates[1].rec>>

\* <digits>.<2 digits>%
FeePattern(s) ==
    /\ Len(s) >= 5
    /\ s[Len(s)] = "%"
    /\ IsDigit(s[Len(s) - 1])
    /\ IsDigit(s[Len(s) - 2])
    /\ s[Len(s) - 3] = "."
    /\ AllDigits(SubSeq(s, 1, Len(s) - 4))

\* C6: every numeric ongoing charge, zero included, gives a record whose fee
\* reads <digits>.<2 digits>%, and a fee of 'N/A' comes only from a charge
\* that is absent or not a number.
C6_FeeFormatted ==
    pc = "normalized" =>
        /\ (raw.ongoing_charge.t = "num" /\ raw.ongoing_charge.v >= 0) =>
              (Len(funds) = 1 /\ FeePattern(funds[1].fee))
        /\ (Len(funds) = 1 /\ funds[1].fee = NA) => raw.ongoing_charge.t # "num"

\* C7: the risk level is defined for every rating: a rating of 2 or less
\* gives Låg, 3 and 4 give Medel, 5 and above give Hög, an absent or invalid
\* rating gives Medel, and no rating keeps the record from being built.
C7_RiskLevelTotal ==
    pc = "normalized" =>
        /\ Len(funds) = 1 <=> raw.ongoing_charge.t # "str"
        /\ Len(funds) = 1 =>
              LET rating == raw.risk_rating
                  risk == funds[1].risk
              IN  /\ risk \in {"Låg", "Medel", "Hög"}
                  /\ (rating.t = "num" /\ rating.v <= 2) => risk = "Låg"
                  /\ (rating.t = "num" /\ rating.v \in {3, 4}) => risk = "Medel"
                  /\ (rating.t = "num" /\ rating.v >= 5) => risk = "Hög"
                  /\ rating.t # "num" => risk = "Medel"

C7_Witness ==
    /\ pc = "normalized"
    /\ raw.risk_rating = PyNum(5)
    /\ Len(funds) = 1
    /\ funds[1].risk = "Hög"

\* C8: with the client library missing no search or detail query is issued,
\* nothing is caught, every fetch returns the empty list, and the document
\* of that run holds the curated records.
C8_UnavailableMeansCurated ==
    ~MSTARPY_AVAILABLE =>
        /\ ~queried
        /\ ~caught
        /\ pc \notin {"search", "results"}
        /\ Len(funds) = 0
        /\ Len(fetched.global) = 0 /\ Len(fetched.se) = 0
        /\ pc # "raised" \/ Built
        /\ Built => /\ SameRecords(output[1].global, CuratedGlobal)
                    /\ SameRecords(output[1].sweden, CuratedSweden)

C8_Witness ==
    ~MSTARPY_AVAILABLE /\ pc = "done" /\ Len(file) = 1

\* text s is value (in tenths) as a whole percentage: '+' and digits for a
\* value of zero or more, '-' and digits for a negative one, then '%', no
\* decimals, the digits within half a percent of the value; the sentinel for
\* a value that is no number
ReturnFormatted(value, s) ==
    IF value.t # "num" THEN s = NA
    ELSE /\ Len(s) >= 3
         /\ s[Len(s)] = "%"
         /\ s[1] = (IF value.v >= 0 THEN "+" ELSE "-")
         /\ AllDigits(SubSeq(s, 2, Len(s) - 1))
         /\ Abs(10 * DigitsValue(SubSeq(s, 2, Len(s) - 1)) - Abs(value.v)) <= 5

\* C9: both returns of a record built from a hit are formatted as signed
\* whole percentages, or are the sentinel when the value is absent or not a
\* number, and no return value keeps the record from being built.
C9_ReturnsSigned ==
    pc = "normalized" =>
        /\ Len(funds) = 1 <=> raw.ongoing_charge.t # "str"
        /\ Len(funds) = 1 =>
              /\ ReturnFormatted(raw.perf1Y, funds[1].return1y)
              /\ ReturnFormatted(raw.perf5Y, funds[1].return5y)

C9_Witness ==
    /\ pc = "normalized"
    /\ Len(funds) = 1
    /\ raw.perf1Y = PyNum(0)
    /\ funds[1].return1y = <<"+", "0", "%">>
    /\ raw.perf5Y = PyNum(-5)
    /\ funds[1].return5y = <<"-", "0", "%">>

\* C10: the sort step leaves in each list the records it found there, and
\* two records of equal numeric fee (two sentinels included) in the order
\* they had before it.
C10_SortStable ==
    [][pc = "sort" =>
          /\ StableRearrangement(global_funds', global_funds)
          /\ StableRearrangement(sweden_funds', sweden_funds)
          /\ output'[1].global = global_funds'
          /\ output'[1].sweden = sweden_funds']_vars

C10_Witness ==
    /\ pc = "done"
    /\ ~LiveEmpty
    /\ file[1].global = fetched.global
    /\ Len(file[1].global) = 2
    /\ file[1].global[1].fee = NA
    /\ file[1].global[2].fee = NA

====
